---- MODULE Spec2Model ----
(***************************************************************************)
(* A model of RAD.py: a Streamlit page that extracts the text of one       *)
(* uploaded document, sends it with a question to a hosted text model and  *)
(* renders what comes back.                                                *)
(*                                                                         *)
(* Python strings are sequences of one-character strings, so that          *)
(* startswith, slicing, concatenation and strip are computed as the code   *)
(* computes them.  A Python value that may be None is a record             *)
(* [t |-> "str", v |-> chars] or [t |-> "None", v |-> <<>>].               *)
(*                                                                         *)
(* Streamlit runs the whole script top to bottom after every user          *)
(* interaction; a button's on_click callback runs first, in the same       *)
(* session, before that rerun.  The session is single-threaded.            *)
(*                                                                         *)
(* Line 166 of RAD.py is a `return` at module level, after the else branch *)
(* of the response rendering.  It belongs to no function; the model reads  *)
(* generate_response as the function body that is actually indented under  *)
(* it (lines 61-73), whose success path has no return statement.           *)
(***************************************************************************)
EXTENDS Integers, Sequences, FiniteSets, TLC

VARIABLES
    pdfreader,          \* lines 10-14: TRUE iff `from pdf import pdfreader` worked
    Document,           \* lines 16-20: TRUE iff `from docx import Document` worked
    uploaded_file,      \* line 100: which of Files the uploader holds, 0 for None
    document_content,   \* st.session_state.document_content
    rag_response,       \* st.session_state.rag_response
    user_prompt_input,  \* st.session_state.user_prompt_input
    pc,                 \* "idle", or "inflight" while line 65 waits for the service
    calls,              \* number of generate_content calls that have returned or raised
    request,            \* the last outbound request (arguments of line 65)
    outcome,            \* what the service did with the last request, once it has
    page,               \* what the last script run rendered
    event               \* the last user interaction

vars == <<pdfreader, Document, uploaded_file, document_content, rag_response,
          user_prompt_input, pc, calls, request, outcome, page, event>>

-----------------------------------------------------------------------------
(* Bounds of the model.                                                    *)

MaxCalls == 2

-----------------------------------------------------------------------------
(* Python values.                                                          *)

None == [t |-> "None", v |-> <<>>]

Str(s) == [t |-> "str", v |-> s]

\* Python truthiness of None and of a str
Truthy(x) == x.t = "str" /\ x.v # <<>>

\* s.startswith(prefix)
StartsWith(s, prefix) ==
    /\ Len(s) >= Len(prefix)
    /\ SubSeq(s, 1, Len(prefix)) = prefix

\* s[:n]
Take(s, n) == IF Len(s) <= n THEN s ELSE SubSeq(s, 1, n)

Whitespace == {" ", "\n", "\t"}

RECURSIVE LStrip(_)
LStrip(s) ==
    IF s # <<>> /\ Head(s) \in Whitespace THEN LStrip(Tail(s)) ELSE s

RECURSIVE RStrip(_)
RStrip(s) ==
    IF s # <<>> /\ s[Len(s)] \in Whitespace
    THEN RStrip(SubSeq(s, 1, Len(s) - 1))
    ELSE s

\* s.strip()
Strip(s) == RStrip(LStrip(s))

UpperCase == <<"A", "B", "C", "D", "E", "F", "G", "H", "I", "J", "K", "L", "M",
               "N", "O", "P", "Q", "R", "S", "T", "U", "V", "W", "X", "Y", "Z">>

LowerCase == <<"a", "b", "c", "d", "e", "f", "g", "h", "i", "j", "k", "l", "m",
               "n", "o", "p", "q", "r", "s", "t", "u", "v", "w", "x", "y", "z">>

\* s.lower()
Lower(s) ==
    [i \in 1..Len(s) |->
        IF \E k \in 1..Len(UpperCase) : UpperCase[k] = s[i]
        THEN LowerCase[CHOOSE k \in 1..Len(UpperCase) : UpperCase[k] = s[i]]
        ELSE s[i]]

\* os.path.splitext(name)[1] for a name without directory separators: the
\* part from the last dot on, unless only dots precede that dot
SplitExt(name) ==
    LET dots == {i \in 1..Len(name) : name[i] = "."}
        last == CHOOSE i \in dots : \A j \in dots : j <= i
    IN  IF dots = {} THEN <<>>
        ELSE IF \A j \in 1..(last - 1) : name[j] = "." THEN <<>>
        ELSE SubSeq(name, last, Len(name))

-----------------------------------------------------------------------------
(* String literals of the program.                                         *)

ErrorPrefix ==
    <<"E", "r", "r", "o", "r", " ", "r", "e", "a", "d", "i", "n",
      "g", " ", "d", "o", "c", "u", "m", "e", "n", "t", ":">>

ErrorReading ==
    <<"E", "r", "r", "o", "r", " ", "r", "e", "a", "d", "i", "n",
      "g", " ", "d", "o", "c", "u", "m", "e", "n", "t", ":", " ">>

PdfUnavailable ==
    <<"P", "D", "F", " ", "r", "e", "a", "d", "i", "n", "g", " ",
      "f", "u", "n", "c", "t", "i", "o", "n", "a", "l", "i", "t",
      "y", " ", "i", "s", " ", "n", "o", "t", " ", "a", "v", "a",
      "i", "l", "a", "b", "l", "e", ".", " ", "P", "l", "e", "a",
      "s", "e", " ", "i", "n", "s", "t", "a", "l", "l", " ", "t",
      "h", "e", " ", "r", "e", "q", "u", "i", "r", "e", "d", " ",
      "l", "i", "b", "r", "a", "r", "y", ".">>

DocxUnavailable ==
    <<"D", "O", "C", "X", " ", "r", "e", "a", "d", "i", "n", "g",
      " ", "f", "u", "n", "c", "t", "i", "o", "n", "a", "l", "i",
      "t", "y", " ", "i", "s", " ", "n", "o", "t", " ", "a", "v",
      "a", "i", "l", "a", "b", "l", "e", ".", " ", "P", "l", "e",
      "a", "s", "e", " ", "i", "n", "s", "t", "a", "l", "l", " ",
      "t", "h", "e", " ", "r", "e", "q", "u", "i", "r", "e", "d",
      " ", "l", "i", "b", "r", "a", "r", "y", ".">>

ApiErrorPrefix ==
    <<"A", "P", "I", " ", "E", "r", "r", "o", "r", ":", " ">>

UnexpectedErrorPrefix ==
    <<"U", "n", "e", "x", "p", "e", "c", "t", "e", "d", " ", "E",
      "r", "r", "o", "r", ":", " ">>

NotFoundSentinel ==
    <<"T", "h", "e", " ", "i", "n", "f", "o", "r", "m", "a", "t",
      "i", "o", "n", " ", "i", "s", " ", "n", "o", "t", " ", "a",
      "v", "a", "i", "l", "a", "b", "l", "e", " ", "i", "n", " ",
      "t", "h", "e", " ", "d", "o", "c", "u", "m", "e", "n", "t",
      ".">>

Ellipsis == <<".", ".", ".">>

PreviewLimit == 2000

MODEL_NAME == "gemini-2.5-flash-lite"

\* one message put on the page by st.error / st.warning / st.info /
\* st.success: the literal or f-string template, and the interpolated value
Msg(level, fmt, arg) == [level |-> level, fmt |-> fmt, arg |-> arg]

-----------------------------------------------------------------------------
(* Uploaded files.                                                         *)
(*                                                                         *)
(* The bytes of a file are described by what the three readers make of     *)
(* them: "utf8" bytes decode to `text`; "pdf" bytes open as a paged        *)
(* document whose pages' extract_text() results are `parts` (a page may    *)
(* give None); "docx" bytes open as a document whose paragraph texts are   *)
(* `parts`; "binary" bytes are none of these.  Bytes of one kind fail      *)
(* under the reader of another kind.                                       *)

Bytes(format, text, parts) == [format |-> format, text |-> text, parts |-> parts]

File(name, data) == [present |-> TRUE, name |-> name, data |-> data]

\* uploaded_file is None
NoFile == [present |-> FALSE, name |-> <<>>, data |-> Bytes("binary", <<>>, <<>>)]

DotTxt == <<".", "t", "x", "t">>

DotMd == <<".", "m", "d">>

DotPdf == <<".", "p", "d", "f">>

DotDocx == <<".", "d", "o", "c", "x">>

\* str(e) of the exception a failed decode raises
DecodeMessage == <<"b", "a", "d", " ", "b", "y", "t", "e">>

\* str(e) of the exception a reader raises on bytes it cannot parse
ParseMessage == <<"b", "a", "d", " ", "f", "i", "l", "e">>

\* what a function gives back: its return value and the messages it put on
\* the page on the way
Outcome(value, shown) == [value |-> value, shown |-> shown]

\* lines 35-38: text += page.extract_text() or ""
RECURSIVE ConcatPages(_)
ConcatPages(pages) ==
    IF pages = <<>> THEN <<>>
    ELSE (IF Truthy(Head(pages)) THEN Head(pages).v ELSE <<>>)
         \o ConcatPages(Tail(pages))

\* line 45: "\n".join([paragraph.text for paragraph in doc.paragraphs])
RECURSIVE JoinParagraphs(_)
JoinParagraphs(paragraphs) ==
    IF paragraphs = <<>> THEN <<>>
    ELSE IF Len(paragraphs) = 1 THEN Head(paragraphs).v
    ELSE Head(paragraphs).v \o <<"\n">> \o JoinParagraphs(Tail(paragraphs))

\* lines 48-50: the except branch of read_document_content
ReadFailure(message) ==
    Outcome(Str(ErrorReading \o message),
            <<Msg("error", "Error reading document: {e}", message)>>)

\* lines 23-50.  hasPdf and hasDocx are the truth values of the module-level
\* names pdfreader and Document.
read_document_content(file, hasPdf, hasDocx) ==
    LET file_extension == Lower(SplitExt(file.name))
    IN  IF file_extension \in {DotTxt, DotMd}
        THEN IF file.data.format = "utf8"
             THEN Outcome(Str(file.data.text), <<>>)
             ELSE ReadFailure(DecodeMessage)
        ELSE IF file_extension = DotPdf
        THEN IF ~hasPdf
             THEN Outcome(Str(PdfUnavailable),
                          <<Msg("error", "PDF reading functionality is not available.", <<>>)>>)
             ELSE IF file.data.format = "pdf"
             THEN Outcome(Str(ConcatPages(file.data.parts)), <<>>)
             ELSE ReadFailure(ParseMessage)
        ELSE IF file_extension = DotDocx
        THEN IF ~hasDocx
             THEN Outcome(Str(DocxUnavailable),
                          <<Msg("error", "DOCX reading functionality is not available.", <<>>)>>)
             ELSE IF file.data.format = "docx"
             THEN Outcome(Str(JoinParagraphs(file.data.parts)), <<>>)
             ELSE ReadFailure(ParseMessage)
        ELSE Outcome(None, <<>>)   \* no branch taken: the function ends without return

\* display_content with the marker added from the limit on (>= for >)
display_content_marks_at_limit(contents) ==
    Take(contents, PreviewLimit)
    \o (IF Len(contents) >= PreviewLimit THEN Ellipsis ELSE <<>>)

\* line 114
display_content(contents) ==
    Take(contents, PreviewLimit)
    \o (IF Len(contents) > PreviewLimit THEN Ellipsis ELSE <<>>)

-----------------------------------------------------------------------------
(* The generation call.                                                    *)

\* what the external service does with one generate_content call: it
\* returns text ("ok"), raises APIError ("api_error") or raises another
\* Exception ("fault"); text is the returned text or str(e)
Service(kind, text) == [kind |-> kind, text |-> text]

NoService == Service("none", <<>>)

\* generate_response with the handlers in the other order: `except Exception`
\* first, so that it also takes an APIError
generate_response_catch_all_first(service) ==
    IF service.kind \in {"api_error", "fault"}
    THEN [value |-> Str(UnexpectedErrorPrefix \o service.text),
          shown |-> <<Msg("error", "Unexpected Error: {e}", service.text)>>,
          calls |-> 1]
    ELSE [value |-> None, shown |-> <<>>, calls |-> 1]

\* generate_response that calls the service a second time after a failure
generate_response_retrying(service) ==
    IF service.kind = "api_error"
    THEN [value |-> Str(ApiErrorPrefix \o service.text),
          shown |-> <<Msg("error", "API Error: {e}", service.text)>>,
          calls |-> 2]
    ELSE IF service.kind = "fault"
    THEN [value |-> Str(UnexpectedErrorPrefix \o service.text),
          shown |-> <<Msg("error", "Unexpected Error: {e}", service.text)>>,
          calls |-> 2]
    ELSE [value |-> None, shown |-> <<>>, calls |-> 1]

\* lines 61-73: the value returned, the messages shown and the number of
\* generate_content calls made, given what the service does.  The try body
\* ends at line 65 without a return, so a call that succeeds falls off the
\* end of the function.
generate_response(service) ==
    IF service.kind = "api_error"
    THEN [value |-> Str(ApiErrorPrefix \o service.text),
          shown |-> <<Msg("error", "API Error: {e}", service.text)>>,
          calls |-> 1]
    ELSE IF service.kind = "fault"
    THEN [value |-> Str(UnexpectedErrorPrefix \o service.text),
          shown |-> <<Msg("error", "Unexpected Error: {e}", service.text)>>,
          calls |-> 1]
    ELSE [value |-> None, shown |-> <<>>, calls |-> 1]

\* line 143
system_instruction == "answer solely from the document, else the not-found sentinel"

\* contents_payload with the parts in the other order
contents_payload_question_first(document, prompt) ==
    << [type |-> "text/plain", text |-> prompt],
       [type |-> "text/plain", text |-> document] >>

\* lines 144-147
contents_payload(document, prompt) ==
    << [type |-> "text/plain", text |-> document],
       [type |-> "text/plain", text |-> prompt] >>

\* the arguments of line 148
Request(document, prompt) ==
    [issued |-> TRUE, model |-> MODEL_NAME,
     content |-> contents_payload(document, prompt),
     system_instruction |-> system_instruction]

NoRequest ==
    [issued |-> FALSE, model |-> MODEL_NAME,
     content |-> contents_payload(<<>>, <<>>),
     system_instruction |-> system_instruction]

\* run_rag_check without the test of lines 135-137
run_rag_check_without_document_test(input, document) ==
    IF Strip(input) = <<>> THEN "no_question" ELSE "generate"

\* lines 130-137: what run_rag decides before it touches the session
run_rag_check(input, document) ==
    IF Strip(input) = <<>> THEN "no_question"
    ELSE IF document = <<>> THEN "no_document"
    ELSE "generate"

\* line 139 keeping the previous answer until the new one arrives
Pending_keeping_answer(previous, current_prompt) ==
    [prompt |-> current_prompt, response |-> previous.response]

\* line 139
Pending(previous, current_prompt) ==
    [prompt |-> current_prompt, response |-> None]

-----------------------------------------------------------------------------
(* One run of the script body, lines 86-165.                               *)

\* the question/answer block of lines 159-163, or its absence
QA(shown, question, answer) ==
    [shown |-> shown, question |-> question, answer |-> answer]

NoQA == QA(FALSE, <<>>, None)

\* what one script run leaves on the page: the status messages in order,
\* the document preview (None when not rendered), the question/answer
\* block, whether the Generate button was rendered, and the exception that
\* ended the run ("" when none did)
Page(status, preview, qa, button, exception) ==
    [status |-> status, preview |-> preview, qa |-> qa, button |-> button,
     exception |-> exception]

\* lines 156-165
Render(response) ==
    IF Truthy(response.response)
    THEN [qa |-> QA(TRUE, response.prompt, response.response), status |-> <<>>]
    ELSE [qa |-> NoQA,
          status |-> <<Msg("info", "The RAG response will appear here once generated.", <<>>)>>]

\* lines 86-165: the session's document text and the page after one run.  `before` are the messages a callback showed ahead of the
\* run; st.stop() ends the run where it is called.
ScriptRun(before, file, document, response, hasPdf, hasDocx) ==
    LET read == read_document_content(file, hasPdf, hasDocx)
        contents == read.value
    IN  IF ~file.present
        THEN IF document = <<>>
             THEN [document_content |-> document,
                   page |-> Page(before \o <<Msg("info", "Please upload a document to proceed.", <<>>)>>,
                                 None, NoQA, FALSE, "")]
             ELSE [document_content |-> document,
                   page |-> Page(before \o Render(response).status,
                                 None, Render(response).qa, TRUE, "")]
        ELSE IF contents.t = "None"
        THEN \* line 104: None has no startswith
             [document_content |-> document,
              page |-> Page(before \o read.shown, None, NoQA, FALSE, "AttributeError")]
        ELSE IF StartsWith(contents.v, ErrorPrefix)
        THEN \* lines 105-107
             [document_content |-> <<>>,
              page |-> Page(before \o read.shown
                                   \o <<Msg("error", "{file_contents}", contents.v)>>,
                            None, NoQA, FALSE, "")]
        ELSE \* lines 109-115, then 117-165
             LET uploaded == before \o read.shown
                     \o <<Msg("success", "Document '{uploaded_file.name}' uploaded successfully!",
                              file.name)>>
                 preview == Str(display_content(contents.v))
             IN  IF contents.v = <<>>
                 THEN [document_content |-> contents.v,
                       page |-> Page(uploaded \o <<Msg("info", "Please upload a document to proceed.", <<>>)>>,
                                     preview, NoQA, FALSE, "")]
                 ELSE [document_content |-> contents.v,
                       page |-> Page(uploaded \o Render(response).status,
                                     preview, Render(response).qa, TRUE, "")]

-----------------------------------------------------------------------------
(* Inputs.                                                                 *)

\* a text of n characters
Chars(n, c) == [i \in 1..n |-> c]

NameTxt == <<"a", ".", "t", "x", "t">>

NameUpperTxt == <<"A", ".", "T", "X", "T">>

NameMd == <<"n", ".", "m", "d">>

NamePdf == <<"d", ".", "p", "d", "f">>

NameDocx == <<"d", ".", "d", "o", "c", "x">>

NameCsv == <<"t", ".", "c", "s", "v">>

NameBare == <<"R", "E", "A", "D", "M", "E">>

PdfData == Bytes("pdf", <<>>, << Str(<<"p", "1">>), None, Str(<<"p", "3">>) >>)

DocxData == Bytes("docx", <<>>, << Str(<<"x">>), Str(<<"y">>) >>)

BinaryData == Bytes("binary", <<>>, <<>>)

ShortData == Bytes("utf8", <<"h", "i">>, <<>>)

\* every file the model hands to the program
Files ==
    << File(NameMd, ShortData),
       File(NameTxt, Bytes("utf8", <<>>, <<>>)),
       File(NameTxt, BinaryData),
       File(NameUpperTxt, Bytes("utf8", ErrorReading \o <<"x">>, <<>>)),
       File(NamePdf, PdfData),
       File(NamePdf, ShortData),
       File(NameDocx, DocxData),
       File(NameDocx, BinaryData),
       File(NameCsv, ShortData),
       File(NameBare, ShortData),
       File(NameTxt, Bytes("utf8", Chars(PreviewLimit, "a"), <<>>)),
       File(NameTxt, Bytes("utf8", Chars(PreviewLimit + 1, "b"), <<>>)) >>

AllFiles == 1..Len(Files)

\* the file behind a handle of the uploader
FileAt(handle) == IF handle = 0 THEN NoFile ELSE Files[handle]

\* line 100: type=['txt', 'md', 'pdf', 'docx'], the uploader's accept-list
AcceptedFiles ==
    {f \in AllFiles : Lower(SplitExt(Files[f].name)) \in {DotTxt, DotMd, DotPdf, DotDocx}}

\* what the user may have typed into the text area
Questions ==
    { <<>>,
      <<" ", "\n">>,
      <<"w", "h", "o", "?">>,
      <<" ", "w", "h", "y", "?", "\n">> }

\* what the service may do with a call
Services ==
    { Service("ok", NotFoundSentinel),
      Service("ok", <<"4", "2">>),
      Service("api_error", <<"4", "2", "9", " ", "q", "u", "o", "t", "a">>),
      Service("fault", <<"t", "i", "m", "e", "d", " ", "o", "u", "t">>) }

\* the kind of the last user interaction
Event(kind) == kind

-----------------------------------------------------------------------------
(* State and actions.                                                      *)

\* lines 10-20 and the first script run of a session, with no file uploaded
Init ==
    /\ pdfreader \in BOOLEAN
    /\ Document \in BOOLEAN
    /\ uploaded_file = 0
    /\ document_content = <<>>
    /\ rag_response = [prompt |-> <<>>, response |-> Str(<<>>)]
    /\ user_prompt_input = <<>>
    /\ pc = "idle"
    /\ calls = 0
    /\ request = NoRequest
    /\ outcome = NoService
    /\ page = ScriptRun(<<>>, NoFile, <<>>, rag_response, pdfreader, Document).page
    /\ event = Event("start")

\* the script reruns: lines 86-165 with `file` in the uploader and
\* `response` in the session.  Line 96 tests a key that is never set
\* ('user_pprompt_input'), so line 97 clears the text area on every run.
Rerun(before, file, response) ==
    LET run == ScriptRun(before, FileAt(file), document_content, response, pdfreader, Document)
    IN  /\ document_content' = run.document_content
        /\ page' = run.page
        /\ user_prompt_input' = <<>>
        /\ uploaded_file' = file
        /\ rag_response' = response
        /\ UNCHANGED <<pdfreader, Document>>

\* the user puts `file` into the uploader (line 100)
UploadFile(file) ==
    /\ pc = "idle"
    /\ Rerun(<<>>, file, rag_response)
    /\ event' = Event("upload")
    /\ UNCHANGED <<pc, calls, request, outcome>>

\* the user takes the file out of the uploader
RemoveFile ==
    /\ pc = "idle"
    /\ uploaded_file # 0
    /\ Rerun(<<>>, 0, rag_response)
    /\ event' = Event("remove")
    /\ UNCHANGED <<pc, calls, request, outcome>>

\* any other interaction that makes Streamlit rerun the script, such as
\* committing the text area
Interact ==
    /\ pc = "idle"
    /\ Rerun(<<>>, uploaded_file, rag_response)
    /\ event' = Event("interact")
    /\ UNCHANGED <<pc, calls, request, outcome>>

\* run_rag is called with `input` in the text area (lines 129-148, up to the
\* outbound call).  When it returns early the script reruns at once; when it
\* goes on, the session waits for the service.
run_rag(input) ==
    /\ pc = "idle"
    /\ event' = Event("generate")
    /\ LET check == run_rag_check(input, document_content)
       IN  IF check = "no_question"
           THEN /\ Rerun(<<Msg("warning", "Please enter a question to proceed.", <<>>)>>,
                         uploaded_file, rag_response)
                /\ UNCHANGED <<pc, calls, request, outcome>>
           ELSE IF check = "no_document"
           THEN /\ Rerun(<<Msg("warning", "No document content available. Please upload a document first.", <<>>)>>,
                         uploaded_file, rag_response)
                /\ UNCHANGED <<pc, calls, request, outcome>>
           ELSE /\ calls < MaxCalls
                /\ rag_response' = Pending(rag_response, Strip(input))
                /\ request' = Request(document_content, Strip(input))
                /\ user_prompt_input' = input
                /\ pc' = "inflight"
                /\ outcome' = NoService
                /\ UNCHANGED <<pdfreader, Document, uploaded_file, document_content,
                               calls, page>>

\* the service call of line 65 ends in `service`: the rest of
\* generate_response, lines 150-151 of run_rag, then the rerun
ServiceReturns(service) ==
    /\ pc = "inflight"
    /\ LET result == generate_response(service)
       IN  /\ Rerun(result.shown \o <<Msg("success", "Response generated successfully!", <<>>)>>,
                    uploaded_file,
                    [rag_response EXCEPT !.response = result.value])
           /\ calls' = calls + result.calls
    /\ outcome' = service
    /\ pc' = "idle"
    /\ UNCHANGED <<request, event>>

\* the user clicks the Generate button (line 154), which is on the page only
\* if the last run rendered it
ClickGenerate(input) ==
    /\ page.button
    /\ run_rag(input)

Next ==
    \/ \E file \in AcceptedFiles : UploadFile(file)
    \/ RemoveFile
    \/ Interact
    \/ \E input \in Questions : ClickGenerate(input)
    \/ \E service \in Services : ServiceReturns(service)

Spec == Init /\ [][Next]_vars

-----------------------------------------------------------------------------
(* The functions called directly, without the page's accept-list and       *)
(* without the button: any file name, any session state.                   *)

NextDirect ==
    \/ \E file \in AllFiles : UploadFile(file)
    \/ RemoveFile
    \/ \E input \in Questions : run_rag(input)
    \/ \E service \in Services : ServiceReturns(service)

SpecDirect == Init /\ [][NextDirect]_vars

-----------------------------------------------------------------------------
(* Properties.                                                             *)

\* the page shows a message with this template
Shows(fmt) == \E i \in 1..Len(page.status) : page.status[i].fmt = fmt

\* C1: when the service call succeeds and returns text T, the answer stored
\* by run_rag is exactly T.
C1_SuccessStoresText ==
    outcome.kind = "ok" => rag_response.response = Str(outcome.text)

\* C2: a failure of the external call never leaves generate_response as an
\* exception: an APIError comes back as the string "API Error: " followed by
\* the service's message, any other fault as "Unexpected Error: " followed by
\* its message, run_rag goes on to store that value, and the two kinds of
\* value cannot be taken for each other.
C2_FailuresAreReturned ==
    /\ outcome.kind = "api_error" =>
          /\ rag_response.response = Str(ApiErrorPrefix \o outcome.text)
          /\ ~StartsWith(rag_response.response.v, UnexpectedErrorPrefix)
    /\ outcome.kind = "fault" =>
          /\ rag_response.response = Str(UnexpectedErrorPrefix \o outcome.text)
          /\ ~StartsWith(rag_response.response.v, ApiErrorPrefix)
    /\ outcome.kind \in {"api_error", "fault"} => pc = "idle" /\ page.exception = ""

C2_Witness ==
    /\ outcome.kind = "api_error"
    /\ calls = 1
    /\ rag_response.response.t = "str"

\* C3: when a generate action ends in a reported error, the user sees a
\* status message and the stored answer is empty or unset: the error is
\* neither stored nor displayed as the answer and no success is reported.
C3_ErrorLeavesResultUnset ==
    (outcome.kind \in {"api_error", "fault"} /\ pc = "idle") =>
        /\ ~Truthy(rag_response.response)
        /\ event = "generate" =>
              /\ ~page.qa.shown
              /\ ~Shows("Response generated successfully!")
              /\ \E i \in 1..Len(page.status) : page.status[i].level = "error"

\* C4: while the uploader holds a file whose extraction fails (a .pdf or
\* .docx whose reader is unavailable, bytes that do not decode, bytes the
\* reader cannot parse), the stored document text is empty, the upload is not
\* reported as successful and the Generate button is not offered.
C4_FailedUploadRetainsNothing ==
    LET file == FileAt(uploaded_file)
        ext == Lower(SplitExt(file.name))
        unavailable == (ext = DotPdf /\ ~pdfreader) \/ (ext = DotDocx /\ ~Document)
        undecodable == ext \in {DotTxt, DotMd} /\ file.data.format # "utf8"
        unparsable == \/ ext = DotPdf /\ pdfreader /\ file.data.format # "pdf"
                      \/ ext = DotDocx /\ Document /\ file.data.format # "docx"
    IN  (uploaded_file # 0 /\ (unavailable \/ undecodable \/ unparsable)) =>
            /\ document_content = <<>>
            /\ ~Shows("Document '{uploaded_file.name}' uploaded successfully!")
            /\ ~page.button

\* C5: for every file name, the upload step fails closed: the script run
\* that reads the file ends without an uncaught exception.
C5_UploadFailsClosed ==
    page.exception = ""

\* C6 as claimed: run_rag called with a non-blank question while the stored
\* document text is "" still issues one well-formed outbound request.
C6_EmptyDocumentStillRequests ==
    [][\A input \in Questions :
          (run_rag(input) /\ Strip(input) # <<>> /\ document_content = <<>>) =>
              /\ pc' = "inflight"
              /\ request'.issued
              /\ request'.content = << [type |-> "text/plain", text |-> <<>>],
                                       [type |-> "text/plain", text |-> Strip(input)] >>]_vars

\* C6 as amended: run_rag called with a non-blank question issues no request
\* when the stored document text is "" (it warns and leaves the stored result
\* and the call count alone), and otherwise issues one request whose first
\* part is the document text and whose second part is the stripped question.
C6_EmptyDocumentIsRefused ==
    [][\A input \in Questions :
          (run_rag(input) /\ Strip(input) # <<>>) =>
              IF document_content = <<>>
              THEN /\ pc' = "idle"
                   /\ request' = request
                   /\ calls' = calls
                   /\ rag_response' = rag_response
                   /\ \E i \in 1..Len(page'.status) :
                         page'.status[i] =
                            Msg("warning", "No document content available. Please upload a document first.", <<>>)
              ELSE /\ pc' = "inflight"
                   /\ request'.issued
                   /\ request'.model = "gemini-2.5-flash-lite"
                   /\ request'.content = << [type |-> "text/plain", text |-> document_content],
                                            [type |-> "text/plain", text |-> Strip(input)] >>]_vars

C6_Witness ==
    /\ Shows("No document content available. Please upload a document first.")
    /\ document_content = <<>>
    /\ calls = 1

\* C7: the number of outbound calls grows only when an in-flight request of
\* a generate action returns, and then by one; whatever the service did, the
\* session is idle afterwards (no retry); and a request is in flight only
\* after a generate action taken while idle.
C7_OneCallPerGenerate ==
    [][/\ \/ calls' = calls
          \/ calls' = calls + 1 /\ pc = "inflight" /\ event = "generate"
       /\ pc = "inflight" => pc' = "idle"
       /\ pc' = "inflight" => pc = "idle" /\ event' = "generate"
       /\ event' \in {"upload", "remove", "interact"} => calls' = calls /\ pc' = "idle"]_vars

C7_Witness ==
    /\ calls = 1
    /\ outcome.kind = "fault"
    /\ event = "interact"

C9_OverwriteOnlyOnCompletion ==
    [][pc' = "inflight" => rag_response' = rag_response]_vars

\* C9 as amended: an accepted generate action replaces the stored pair at
\* once by the stripped new question with an unset answer; when the request
\* completes the question is kept (it is the question of the request sent)
\* and only the answer is written; every other step, a generate action
\* rejected for a blank question among them, leaves the stored pair as it is.
C9_StoredPair ==
    [][/\ (pc = "idle" /\ pc' = "inflight") =>
             /\ rag_response' = [prompt |-> Strip(user_prompt_input'), response |-> None]
             /\ rag_response'.prompt = request'.content[2].text
       /\ pc = "inflight" =>
             /\ rag_response'.prompt = rag_response.prompt
             /\ rag_response'.prompt = request.content[2].text
             /\ outcome'.kind # "ok" => Truthy(rag_response'.response)
       /\ (pc = "idle" /\ pc' = "idle") => rag_response' = rag_response]_vars

C9_Witness ==
    /\ Shows("Please enter a question to proceed.")
    /\ rag_response.prompt = <<"w", "h", "o", "?">>
    /\ calls = 2

====
